---- MODULE Spec2Model ----
(***************************************************************************)
(* A model of gogo, the Go project scaffolder: the configuration model     *)
(* (pkg/config: presets, SaveConfigToFile, LoadConfigFromFile) and the     *)
(* generation engine (internal/wizard/generator.go: GenerateProject and    *)
(* the generate* functions it calls), over a modelled file system.         *)
(***************************************************************************)
EXTENDS Integers, Sequences, FiniteSets, TLC

VARIABLES
    cfg,        \* the *ProjectConfig a call works on
    now,        \* what time.Now() returns during the run
    fsDirs,     \* the directories that exist (paths below the output root)
    fsFiles,    \* the files that exist: path -> content
    genState,   \* GenerateProject: "idle", "running" or "returned"
    pending,    \* the mkdir/write operations GenerateProject has still to do
    log,        \* the operations GenerateProject has performed, in order
    failed,     \* the operations whose os call returned an error, in order
    genErr,     \* what GenerateProject returned: "nil" or the error
    cfgFrom,    \* how cfg was made: the constructor and its argument
    loadRes,    \* the last LoadConfigFromFile: its path, and the pointer
                \* (<<>> is nil) and the error ("" is nil) it returned
    saveRes,    \* the last SaveConfigToFile: its arguments and its error
    firstRun,   \* what an earlier GenerateProject on the same directory left
    proc        \* a run of `gogo new`: its arguments, where it is in
                \* newCmd.Run, what it printed and its exit status

vars == <<cfg, now, fsDirs, fsFiles, genState, pending, log, failed, genErr,
          cfgFrom, loadRes, saveRes, firstRun, proc>>

genVars == <<genState, pending, log, failed, genErr>>

runVars == <<firstRun, proc>>

(***************************************************************************)
(* Bounds of the model.                                                    *)
(***************************************************************************)
\* A checked config differs from a preset in at most this many fields.
MaxFlips == 2

----------------------------------------------------------------------------
(***************************************************************************)
(* pkg/config: ProjectType, ProjectConfig and the presets.                 *)
(***************************************************************************)
TypeCLI == "cli"
TypeAPI == "api"
TypeLibrary == "library"
TypeDefault == "default"

\* The fields of ProjectConfig, in declaration order, with their kind.
StringFields == <<"Name", "Module", "Description", "License", "Author", "Type">>

BoolFields ==
    <<"UseCmd", "UseInternal", "UsePkg", "UseTest", "UseDocs",
      "CreateReadme", "CreateLicense", "CreateMakefile",
      "UseLinters", "UsePreCommitHooks", "UseGitHooks",
      "UseCobra", "UseViper", "UseGin", "UseGitHubActions">>

Range(s) == {s[i] : i \in 1..Len(s)}

ConfigFields == Range(StringFields) \cup Range(BoolFields)

\* The zero value of the struct: what `var cfg ProjectConfig` holds.
ZeroProjectConfig ==
    [f \in ConfigFields |-> IF f \in Range(BoolFields) THEN FALSE ELSE ""]

NewDefaultProjectConfig ==
    [Name |-> "my-project",
     Module |-> "github.com/username/my-project",
     Description |-> "A Go project",
     License |-> "MIT",
     Author |-> "",
     Type |-> TypeDefault,
     UseCmd |-> TRUE,
     UseInternal |-> TRUE,
     UsePkg |-> TRUE,
     UseTest |-> TRUE,
     UseDocs |-> TRUE,
     CreateReadme |-> TRUE,
     CreateLicense |-> TRUE,
     CreateMakefile |-> TRUE,
     UseLinters |-> TRUE,
     UsePreCommitHooks |-> TRUE,
     UseGitHooks |-> TRUE,
     UseCobra |-> FALSE,
     UseViper |-> FALSE,
     UseGin |-> FALSE,
     UseGitHubActions |-> TRUE]

NewCLIProjectConfig ==
    [NewDefaultProjectConfig EXCEPT
        !.Type = TypeCLI, !.UseCobra = TRUE, !.UseViper = TRUE]

\* NewAPIProjectConfig without its UseGin line.
NewAPIProjectConfigNoGin == [NewDefaultProjectConfig EXCEPT !.Type = TypeAPI]

NewAPIProjectConfig ==
    [NewDefaultProjectConfig EXCEPT !.Type = TypeAPI, !.UseGin = TRUE]

NewLibraryProjectConfig ==
    [NewDefaultProjectConfig EXCEPT !.Type = TypeLibrary, !.UseCmd = FALSE]

GetProjectConfigForType(projType) ==
    CASE projType = TypeCLI -> NewCLIProjectConfig
      [] projType = TypeAPI -> NewAPIProjectConfig
      [] projType = TypeLibrary -> NewLibraryProjectConfig
      [] OTHER -> NewDefaultProjectConfig

(***************************************************************************)
(* The configs the model is checked on: every config that differs from a   *)
(* base config in at most k fields, each changed field taking a value of   *)
(* its domain.                                                             *)
(***************************************************************************)
\* The project types met: the four of the enum, an unrecognized one, and the
\* zero value a loaded file without a type key leaves.
TypeValues == {TypeDefault, TypeCLI, TypeAPI, TypeLibrary, "unknown", ""}

RECURSIVE CfgsNear(_, _, _)
CfgsNear(base, k, dom) ==
    IF k = 0 THEN {base}
    ELSE LET near == CfgsNear(base, k - 1, dom)
         IN  near \cup
             UNION { UNION { {[c EXCEPT ![f] = v] : v \in dom[f]}
                             : f \in ConfigFields } : c \in near }

----------------------------------------------------------------------------
(***************************************************************************)
(* Strings.  TLC's strings are atomic, so the few string functions the     *)
(* program applies (Sprintf of a name into a file name, strings.ToLower,   *)
(* the %t verb, the year of the clock) are tables over the values met.     *)
(***************************************************************************)
\* fmt.Sprintf("%s.go", cfg.Name)
LibFileName(name) ==
    CASE name = "my-project" -> "my-project.go"
      [] name = "demo" -> "demo.go"
      [] name = "Demo" -> "Demo.go"
      [] name = "" -> ".go"

\* fmt.Sprintf("%s_test.go", cfg.Name)
LibTestFileName(name) ==
    CASE name = "my-project" -> "my-project_test.go"
      [] name = "demo" -> "demo_test.go"
      [] name = "Demo" -> "Demo_test.go"
      [] name = "" -> "_test.go"

\* strings.ToLower(cfg.Name)
ToLower(name) ==
    CASE name = "my-project" -> "my-project"
      [] name = "demo" -> "demo"
      [] name = "Demo" -> "demo"
      [] name = "" -> ""

\* The %t verb.
FmtT(b) == IF b THEN "true" ELSE "false"

\* The instants time.Now() may return, as time.RFC3339 renders them.
Times == {"2025-12-31T23:59:59Z", "2026-11-01T09:30:00Z"}

\* time.Now().Year(), as %d renders it.
Year(t) ==
    CASE t = "2025-12-31T23:59:59Z" -> "2025"
      [] t = "2026-11-01T09:30:00Z" -> "2026"

(***************************************************************************)
(* The file system.  A path is the sequence of its elements below the      *)
(* output directory, which exists; filepath.Join drops empty elements.     *)
(***************************************************************************)
Join(dir, elems) == dir \o SelectSeq(elems, LAMBDA e : e # "")

Parent(path) == SubSeq(path, 1, Len(path) - 1)

\* The path and every directory above it, below the output directory.
Prefixes(path) == {SubSeq(path, 1, i) : i \in 1..Len(path)}

\* os.Mkdir in the place of os.MkdirAll: fails on a directory that exists.
CanMkdirOnlyNew(files, path) ==
    /\ Prefixes(path) \cap DOMAIN files = {}
    /\ path \notin fsDirs

\* os.MkdirAll(path): fails when the path or a directory above it is a file.
CanMkdirAll(files, path) == Prefixes(path) \cap DOMAIN files = {}

\* os.WriteFile(path): needs the parent directory, and path not a directory.
CanWriteFile(dirs, files, path) ==
    /\ path # <<>>
    /\ (Parent(path) = <<>> \/ Parent(path) \in dirs)
    /\ path \notin dirs
    /\ Prefixes(Parent(path)) \cap DOMAIN files = {}

(***************************************************************************)
(* File contents: the template written and the values formatted into it,   *)
(* in the order of the Sprintf arguments; parts names the optional         *)
(* sections the code appended.                                             *)
(***************************************************************************)
Content(tmpl, args, parts) == [tmpl |-> tmpl, args |-> args, parts |-> parts]

NoContent == Content("", <<>>, {})

\* One os call of the generator: kind is "mkdir" or "write"; by names the
\* function that makes the call; check says the code returns the call's error.
Op(kind, path, content, by) ==
    [kind |-> kind, path |-> path, content |-> content, by |-> by,
     check |-> TRUE]

Mkdir(path, by) == Op("mkdir", path, NoContent, by)
Write(path, content, by) == Op("write", path, content, by)

----------------------------------------------------------------------------
(***************************************************************************)
(* internal/wizard/generator.go.  Each generate* function is the sequence  *)
(* of os calls it makes for a config, in program order, each returning its *)
(* error to the caller at once.                                            *)
(***************************************************************************)
\* The keys of the gogo.yaml template, in the order of its Sprintf arguments
\* (the first argument is the "Generated on" comment).
ConfigFileKeys ==
    <<"generated_on",
      "project.name", "project.module", "project.description",
      "project.license", "project.author",
      "structure.use_cmd", "structure.use_internal", "structure.use_pkg",
      "structure.use_test", "structure.use_docs",
      "files.create_readme", "files.create_license", "files.create_makefile",
      "quality.use_linters", "quality.use_pre_commit_hooks",
      "quality.use_git_hooks",
      "dependencies.use_cobra", "dependencies.use_viper",
      "cicd.use_github_actions">>

\* The text of gogo.yaml: the strings under %q, the booleans under %t.
ConfigFileContent(c, t) ==
    Content("gogo.yaml",
            <<t,
              c.Name, c.Module, c.Description, c.License, c.Author,
              FmtT(c.UseCmd), FmtT(c.UseInternal), FmtT(c.UsePkg),
              FmtT(c.UseTest), FmtT(c.UseDocs),
              FmtT(c.CreateReadme), FmtT(c.CreateLicense),
              FmtT(c.CreateMakefile),
              FmtT(c.UseLinters), FmtT(c.UsePreCommitHooks),
              FmtT(c.UseGitHooks),
              FmtT(c.UseCobra), FmtT(c.UseViper),
              FmtT(c.UseGitHubActions)>>,
            {})

generateConfigFile(c, projectDir, t, by) ==
    <<Write(Join(projectDir, <<"gogo.yaml">>), ConfigFileContent(c, t), by)>>

ReadmeContent(c) ==
    Content("README.md",
            <<c.Name, c.Description, c.Module, c.Name, ToLower(c.Name)>>,
            IF c.CreateMakefile THEN {"Using Make"} ELSE {})

\* LicenseContent with the MIT text for every license.
LicenseContentAlwaysMIT(c, t) ==
    Content("LICENSE: MIT", <<Year(t), c.Author>>, {})

LicenseContent(c, t) ==
    IF c.License = "MIT"
    THEN Content("LICENSE: MIT", <<Year(t), c.Author>>, {})
    ELSE Content("LICENSE: generic", <<Year(t), c.Author, c.License>>, {})

\* generateRootFiles writing the LICENSE whenever CreateLicense is set.
generateRootFilesAnyLicense(c, projectDir, t) ==
    LET by == "generateRootFiles" IN
    generateConfigFile(c, projectDir, t, by)
    \o (IF c.CreateReadme
        THEN <<Write(Join(projectDir, <<"README.md">>), ReadmeContent(c), by)>>
        ELSE <<>>)
    \o (IF c.CreateLicense
        THEN <<Write(Join(projectDir, <<"LICENSE">>), LicenseContent(c, t), by)>>
        ELSE <<>>)
    \o <<Write(Join(projectDir, <<".gitignore">>),
               Content(".gitignore", <<>>, {}), by)>>
    \o (IF c.CreateMakefile
        THEN <<Write(Join(projectDir, <<"Makefile">>),
                     Content("Makefile", <<ToLower(c.Name)>>, {}), by)>>
        ELSE <<>>)

generateRootFiles(c, projectDir, t) ==
    LET by == "generateRootFiles" IN
    generateConfigFile(c, projectDir, t, by)
    \o (IF c.CreateReadme
        THEN <<Write(Join(projectDir, <<"README.md">>), ReadmeContent(c), by)>>
        ELSE <<>>)
    \o (IF c.CreateLicense /\ c.License # "None"
        THEN <<Write(Join(projectDir, <<"LICENSE">>), LicenseContent(c, t), by)>>
        ELSE <<>>)
    \o <<Write(Join(projectDir, <<".gitignore">>),
               Content(".gitignore", <<>>, {}), by)>>
    \o (IF c.CreateMakefile
        THEN <<Write(Join(projectDir, <<"Makefile">>),
                     Content("Makefile", <<ToLower(c.Name)>>, {}), by)>>
        ELSE <<>>)

\* The dirs slice without the docs directory.
StructureDirsNoDocs(c) ==
    (IF c.UseCmd THEN <<"cmd">> ELSE <<>>)
    \o (IF c.UseInternal THEN <<"internal">> ELSE <<>>)
    \o (IF c.UsePkg THEN <<"pkg">> ELSE <<>>)
    \o (IF c.UseTest THEN <<"test">> ELSE <<>>)

\* The dirs slice GenerateProject builds from the structure flags.
StructureDirs(c) ==
    (IF c.UseCmd THEN <<"cmd">> ELSE <<>>)
    \o (IF c.UseInternal THEN <<"internal">> ELSE <<>>)
    \o (IF c.UsePkg THEN <<"pkg">> ELSE <<>>)
    \o (IF c.UseDocs THEN <<"docs">> ELSE <<>>)
    \o (IF c.UseTest THEN <<"test">> ELSE <<>>)

\* The loop over dirs: MkdirAll, then the .gitkeep placeholder.
RECURSIVE generateStructure(_, _)
generateStructure(dirs, projectDir) ==
    IF dirs = <<>> THEN <<>>
    ELSE LET dirPath == Join(projectDir, <<Head(dirs)>>)
         IN  <<Mkdir(dirPath, "GenerateProject.dirs"),
               Write(Join(dirPath, <<".gitkeep">>),
                     Content("empty", <<>>, {}), "GenerateProject.dirs")>>
             \o generateStructure(Tail(dirs), projectDir)

generateCLICode(c, projectDir) ==
    LET by == "generateCLICode"
        cmdDir == Join(projectDir, <<"cmd", c.Name>>)
        cmdPkgDir == Join(cmdDir, <<"cmd">>)
    IN  <<Mkdir(cmdDir, by),
          Write(Join(cmdDir, <<"main.go">>),
                Content("cli main.go", <<c.Module, c.Name>>, {}), by),
          Mkdir(cmdPkgDir, by),
          Write(Join(cmdPkgDir, <<"root.go">>),
                Content("cli root.go", <<c.Name, c.Name, c.Name, c.Name>>, {}),
                by),
          Write(Join(cmdPkgDir, <<"version.go">>),
                Content("cli version.go", <<c.Name>>, {}), by)>>

generateAPICode(c, projectDir) ==
    LET by == "generateAPICode"
        cmdDir == Join(projectDir, <<"cmd", c.Name>>)
        configDir == Join(projectDir, <<"internal", "config">>)
        apiDir == Join(projectDir, <<"internal", "api">>)
    IN  <<Mkdir(cmdDir, by),
          Write(Join(cmdDir, <<"main.go">>),
                Content("api main.go", <<c.Module, c.Module>>, {}), by),
          Mkdir(configDir, by),
          Write(Join(configDir, <<"config.go">>),
                Content("api config.go", <<>>, {}), by),
          Mkdir(apiDir, by),
          Write(Join(apiDir, <<"server.go">>),
                Content("api server.go", <<c.Module>>, {}), by)>>

\* generateLibraryCode without its os.MkdirAll(pkgDir).
generateLibraryCodeNoMkdir(c, projectDir) ==
    LET by == "generateLibraryCode"
        pkgDir == Join(projectDir, <<"pkg", c.Name>>)
    IN  <<Write(Join(pkgDir, <<LibFileName(c.Name)>>),
                Content("library.go", <<c.Name>>, {}), by),
          Write(Join(pkgDir, <<LibTestFileName(c.Name)>>),
                Content("library_test.go", <<c.Name>>, {}), by)>>

generateLibraryCode(c, projectDir) ==
    LET by == "generateLibraryCode"
        pkgDir == Join(projectDir, <<"pkg", c.Name>>)
    IN  <<Mkdir(pkgDir, by),
          Write(Join(pkgDir, <<LibFileName(c.Name)>>),
                Content("library.go", <<c.Name>>, {}), by),
          Write(Join(pkgDir, <<LibTestFileName(c.Name)>>),
                Content("library_test.go", <<c.Name>>, {}), by)>>

generateDefaultCode(c, projectDir) ==
    <<Write(Join(projectDir, <<"main.go">>),
            Content("default main.go", <<c.Name>>, {}), "generateDefaultCode")>>

\* The third-party packages the text of a generated Go file imports.
CobraModule == "github.com/spf13/cobra"
ViperModule == "github.com/spf13/viper"
GinModule == "github.com/gin-gonic/gin"

TemplateImports(tmpl) ==
    CASE tmpl = "cli root.go" -> {CobraModule, ViperModule}
      [] tmpl = "cli version.go" -> {CobraModule}
      [] tmpl = "api server.go" -> {GinModule}
      [] OTHER -> {}

\* What the fixed text of a template sets up besides what its name says: the
\* root.go of a CLI declares the cfgFile flag, registers initConfig and reads
\* the config file with Viper.
TemplateSections(tmpl) ==
    CASE tmpl = "cli root.go" ->
            {"rootCmd", "Execute", "cfgFile flag", "initConfig"}
      [] OTHER -> {}

\* generateInitialCodeByType with the library case missing from the switch.
generateInitialCodeByTypeNoLibrary(c, projectDir) ==
    CASE c.Type = TypeCLI -> generateCLICode(c, projectDir)
      [] c.Type = TypeAPI -> generateAPICode(c, projectDir)
      [] OTHER -> generateDefaultCode(c, projectDir)

generateInitialCodeByType(c, projectDir) ==
    CASE c.Type = TypeCLI -> generateCLICode(c, projectDir)
      [] c.Type = TypeAPI -> generateAPICode(c, projectDir)
      [] c.Type = TypeLibrary -> generateLibraryCode(c, projectDir)
      [] OTHER -> generateDefaultCode(c, projectDir)

\* GoModContent with the Viper line left out of the require block.
GoModContentNoViper(c) ==
    Content("go.mod", <<c.Module>>,
            (IF c.UseCobra \/ c.UseViper THEN {"require"} ELSE {})
            \cup (IF c.UseCobra THEN {"github.com/spf13/cobra v1.9.1"} ELSE {}))

GoModContent(c) ==
    Content("go.mod", <<c.Module>>,
            (IF c.UseCobra \/ c.UseViper THEN {"require"} ELSE {})
            \cup (IF c.UseCobra THEN {"github.com/spf13/cobra v1.9.1"} ELSE {})
            \cup (IF c.UseViper THEN {"github.com/spf13/viper v1.19.0"} ELSE {}))

\* The module a line of the require block declares.
RequireModule(line) ==
    CASE line = "github.com/spf13/cobra v1.9.1" -> CobraModule
      [] line = "github.com/spf13/viper v1.19.0" -> ViperModule
      [] OTHER -> ""

generateGoMod(c, projectDir) ==
    <<Write(Join(projectDir, <<"go.mod">>), GoModContent(c), "generateGoMod")>>

\* generateGitHubWorkflows writing the lint workflow whatever UseLinters is.
generateGitHubWorkflowsAlwaysLint(c, projectDir) ==
    LET by == "generateGitHubWorkflows"
        workflowDir == Join(projectDir, <<".github", "workflows">>)
    IN  <<Mkdir(workflowDir, by),
          Write(Join(workflowDir, <<"ci.yml">>), Content("ci.yml", <<>>, {}), by),
          Write(Join(workflowDir, <<"lint.yml">>),
                Content("lint.yml", <<>>, {}), by)>>

generateGitHubWorkflows(c, projectDir) ==
    LET by == "generateGitHubWorkflows"
        workflowDir == Join(projectDir, <<".github", "workflows">>)
    IN  <<Mkdir(workflowDir, by),
          Write(Join(workflowDir, <<"ci.yml">>), Content("ci.yml", <<>>, {}), by)>>
        \o (IF c.UseLinters
            THEN <<Write(Join(workflowDir, <<"lint.yml">>),
                         Content("lint.yml", <<>>, {}), by)>>
            ELSE <<>>)

generateLinterConfig(c, projectDir) ==
    <<Write(Join(projectDir, <<".golangci.yml">>),
            Content(".golangci.yml", <<c.Module>>, {}), "generateLinterConfig")>>

\* generatePreCommitConfig with the error of its first write dropped.
generatePreCommitConfigUnchecked(c, projectDir) ==
    LET by == "generatePreCommitConfig" IN
    <<[Write(Join(projectDir, <<".pre-commit-config.yaml">>),
             Content(".pre-commit-config.yaml",
                     <<ToLower(c.Name), ToLower(c.Name)>>, {}), by)
          EXCEPT !.check = FALSE],
      Write(Join(projectDir, <<".commitlintrc.yaml">>),
            Content(".commitlintrc.yaml", <<>>, {}), by)>>

generatePreCommitConfig(c, projectDir) ==
    LET by == "generatePreCommitConfig" IN
    <<Write(Join(projectDir, <<".pre-commit-config.yaml">>),
            Content(".pre-commit-config.yaml",
                    <<ToLower(c.Name), ToLower(c.Name)>>, {}), by),
      Write(Join(projectDir, <<".commitlintrc.yaml">>),
            Content(".commitlintrc.yaml", <<>>, {}), by)>>

\* GenerateProject with go.mod written before the initial code.
GenerateProjectOpsGoModFirst(c, t) ==
    LET projectDir == Join(<<>>, <<c.Name>>) IN
    <<Mkdir(projectDir, "GenerateProject")>>
    \o generateRootFiles(c, projectDir, t)
    \o generateStructure(StructureDirs(c), projectDir)
    \o generateGoMod(c, projectDir)
    \o generateInitialCodeByType(c, projectDir)
    \o generateConfigFile(c, projectDir, t, "GenerateProject")
    \o (IF c.UseGitHubActions
        THEN generateGitHubWorkflows(c, projectDir) ELSE <<>>)
    \o (IF c.UseLinters THEN generateLinterConfig(c, projectDir) ELSE <<>>)
    \o (IF c.UsePreCommitHooks
        THEN generatePreCommitConfig(c, projectDir) ELSE <<>>)

\* GenerateProject(cfg, outputDir): every os call it makes, in order.
GenerateProjectOps(c, t) ==
    LET projectDir == Join(<<>>, <<c.Name>>) IN
    <<Mkdir(projectDir, "GenerateProject")>>
    \o generateRootFiles(c, projectDir, t)
    \o generateStructure(StructureDirs(c), projectDir)
    \o generateInitialCodeByType(c, projectDir)
    \o generateConfigFile(c, projectDir, t, "GenerateProject")
    \o generateGoMod(c, projectDir)
    \o (IF c.UseGitHubActions
        THEN generateGitHubWorkflows(c, projectDir) ELSE <<>>)
    \o (IF c.UseLinters THEN generateLinterConfig(c, projectDir) ELSE <<>>)
    \o (IF c.UsePreCommitHooks
        THEN generatePreCommitConfig(c, projectDir) ELSE <<>>)

----------------------------------------------------------------------------
(***************************************************************************)
(* YAML, as gopkg.in/yaml.v3 encodes and decodes a ProjectConfig: a        *)
(* document is a mapping from keys to scalars, a scalar is its text and    *)
(* whether it is quoted.  A plain scalar resolves to a bool, a null, an    *)
(* int or a string by its text; a quoted one is a string.                  *)
(***************************************************************************)
\* The struct tags with UseGin left out of the file (tagged "-").
YamlKeyGinSkipped(f) ==
    CASE f = "Name" -> "name"
      [] f = "Module" -> "module"
      [] f = "Description" -> "description"
      [] f = "License" -> "license"
      [] f = "Author" -> "author"
      [] f = "Type" -> "type"
      [] f = "UseCmd" -> "use_cmd"
      [] f = "UseInternal" -> "use_internal"
      [] f = "UsePkg" -> "use_pkg"
      [] f = "UseTest" -> "use_test"
      [] f = "UseDocs" -> "use_docs"
      [] f = "CreateReadme" -> "create_readme"
      [] f = "CreateLicense" -> "create_license"
      [] f = "CreateMakefile" -> "create_makefile"
      [] f = "UseLinters" -> "use_linters"
      [] f = "UsePreCommitHooks" -> "use_pre_commit_hooks"
      [] f = "UseGitHooks" -> "use_git_hooks"
      [] f = "UseCobra" -> "use_cobra"
      [] f = "UseViper" -> "use_viper"
      [] f = "UseGin" -> "-"
      [] f = "UseGitHubActions" -> "use_github_actions"

\* The yaml struct tags of ProjectConfig.
YamlKey(f) ==
    CASE f = "Name" -> "name"
      [] f = "Module" -> "module"
      [] f = "Description" -> "description"
      [] f = "License" -> "license"
      [] f = "Author" -> "author"
      [] f = "Type" -> "type"
      [] f = "UseCmd" -> "use_cmd"
      [] f = "UseInternal" -> "use_internal"
      [] f = "UsePkg" -> "use_pkg"
      [] f = "UseTest" -> "use_test"
      [] f = "UseDocs" -> "use_docs"
      [] f = "CreateReadme" -> "create_readme"
      [] f = "CreateLicense" -> "create_license"
      [] f = "CreateMakefile" -> "create_makefile"
      [] f = "UseLinters" -> "use_linters"
      [] f = "UsePreCommitHooks" -> "use_pre_commit_hooks"
      [] f = "UseGitHooks" -> "use_git_hooks"
      [] f = "UseCobra" -> "use_cobra"
      [] f = "UseViper" -> "use_viper"
      [] f = "UseGin" -> "use_gin"
      [] f = "UseGitHubActions" -> "use_github_actions"

Plain(text) == [style |-> "plain", text |-> text]
Quoted(text) == [style |-> "quoted", text |-> text]

\* The tag the decoder resolves a scalar to.
Resolve(node) ==
    IF node.style = "quoted" THEN "str"
    ELSE CASE node.text \in {"true", "false"} -> "bool"
           [] node.text \in {"", "null", "~"} -> "null"
           [] node.text \in {"123"} -> "int"
           [] OTHER -> "str"

\* The encoder writes a string plain when it reads back as a string, and
\* quoted otherwise; a bool as true or false.
EncodeString(s) == IF Resolve(Plain(s)) = "str" THEN Plain(s) ELSE Quoted(s)
EncodeBool(b) == Plain(FmtT(b))

\* Into a string field: a null leaves the zero value, any other scalar its text.
DecodeString(node) == IF Resolve(node) = "null" THEN "" ELSE node.text

\* Into a bool field: a bool, or a null (the zero value); else a type error.
CanDecodeBool(node) == Resolve(node) \in {"bool", "null"}
DecodeBool(node) == Resolve(node) = "bool" /\ node.text = "true"

\* A field tagged "-" is skipped by the encoder and the decoder.
TaggedFields == {f \in ConfigFields : YamlKey(f) # "-"}
FieldOfKey(k) == CHOOSE f \in TaggedFields : YamlKey(f) = k

\* yaml.Marshal(cfg)
yamlMarshal(c) ==
    [k \in {YamlKey(f) : f \in TaggedFields} |->
        IF FieldOfKey(k) \in Range(BoolFields)
        THEN EncodeBool(c[FieldOfKey(k)])
        ELSE EncodeString(c[FieldOfKey(k)])]

\* yaml.Unmarshal(data, &out) of a well-formed document: whether it succeeds,
\* and out afterwards.  Keys that no field is tagged with are ignored.
yamlUnmarshalOK(doc) ==
    \A f \in TaggedFields \cap Range(BoolFields) :
        YamlKey(f) \in DOMAIN doc => CanDecodeBool(doc[YamlKey(f)])

yamlUnmarshal(doc, out) ==
    [f \in ConfigFields |->
        IF f \in TaggedFields /\ YamlKey(f) \in DOMAIN doc
        THEN IF f \in Range(BoolFields)
             THEN DecodeBool(doc[YamlKey(f)])
             ELSE DecodeString(doc[YamlKey(f)])
        ELSE out[f]]

\* A file holding a YAML mapping, and one that is not well-formed YAML.
YamlFile(doc) == [tmpl |-> "yaml", doc |-> doc]
MalformedFile == [tmpl |-> "malformed", doc |-> <<>>]

ErrRead == "failed to read config file"
ErrParse == "failed to parse config file"
ErrMkdir == "failed to create directory"
ErrWrite == "failed to write config file"

\* LoadConfigFromFile decoding into NewDefaultProjectConfig().
LoadConfigFromFileOverDefaults(files, filePath) ==
    IF filePath \notin DOMAIN files
    THEN [cfg |-> <<>>, err |-> ErrRead]
    ELSE IF files[filePath].tmpl # "yaml" \/ ~yamlUnmarshalOK(files[filePath].doc)
    THEN [cfg |-> <<>>, err |-> ErrParse]
    ELSE [cfg |-> <<yamlUnmarshal(files[filePath].doc, NewDefaultProjectConfig)>>,
          err |-> ""]

\* LoadConfigFromFile checking the decoded type against the enum.
LoadConfigFromFileCoercingType(files, filePath) ==
    IF filePath \notin DOMAIN files
    THEN [cfg |-> <<>>, err |-> ErrRead]
    ELSE IF files[filePath].tmpl # "yaml" \/ ~yamlUnmarshalOK(files[filePath].doc)
    THEN [cfg |-> <<>>, err |-> ErrParse]
    ELSE LET out == yamlUnmarshal(files[filePath].doc, ZeroProjectConfig)
         IN  [cfg |-> <<IF out.Type \in {TypeCLI, TypeAPI, TypeLibrary}
                        THEN out ELSE [out EXCEPT !.Type = TypeDefault]>>,
              err |-> ""]

\* LoadConfigFromFile returning the defaults when the file does not parse.
LoadConfigFromFileDefaultsOnError(files, filePath) ==
    IF filePath \notin DOMAIN files
    THEN [cfg |-> <<>>, err |-> ErrRead]
    ELSE IF files[filePath].tmpl # "yaml" \/ ~yamlUnmarshalOK(files[filePath].doc)
    THEN [cfg |-> <<NewDefaultProjectConfig>>, err |-> ErrParse]
    ELSE [cfg |-> <<yamlUnmarshal(files[filePath].doc, ZeroProjectConfig)>>,
          err |-> ""]

\* LoadConfigFromFile(filePath): the pointer (<<>> is nil) and the error.
LoadConfigFromFile(files, filePath) ==
    IF filePath \notin DOMAIN files
    THEN [cfg |-> <<>>, err |-> ErrRead]
    ELSE IF files[filePath].tmpl # "yaml" \/ ~yamlUnmarshalOK(files[filePath].doc)
    THEN [cfg |-> <<>>, err |-> ErrParse]
    ELSE [cfg |-> <<yamlUnmarshal(files[filePath].doc, ZeroProjectConfig)>>,
          err |-> ""]

----------------------------------------------------------------------------
(***************************************************************************)
(* The configs and documents the model is checked on.                      *)
(***************************************************************************)
\* For the generator: the presets of every type, changed in at most MaxFlips
\* fields (any flag; the name, module, license or author).
GenDomain ==
    [f \in ConfigFields |->
        CASE f \in Range(BoolFields) -> BOOLEAN
          [] f = "Name" -> {"my-project", "demo", ""}
          [] f = "Module" -> {"github.com/username/my-project", "example.com/demo"}
          [] f = "License" -> {"MIT", "Apache-2.0", "None"}
          [] f = "Author" -> {"", "Ann"}
          [] OTHER -> {}]

\* The licenses the wizard offers, and one it does not.
LicenseOptions ==
    {"MIT", "Apache-2.0", "GPL-3.0", "BSD-3-Clause", "None", "Unlicense"}

\* Every license, with and without an author and a LICENSE file asked for.
LicenseCfgs ==
    {[NewDefaultProjectConfig EXCEPT !.License = l, !.Author = a,
                                     !.CreateLicense = b] :
        l \in LicenseOptions, a \in {"", "Ann"}, b \in BOOLEAN}

\* The preset of every type, named as TestGenerateProject names it.
PresetCfgs ==
    {[GetProjectConfigForType(t) EXCEPT !.Name = "demo",
                                        !.Module = "example.com/demo"] :
        t \in TypeValues}

\* Every combination of the five structure flags, for every type.
StructureFlags == <<"UseCmd", "UseInternal", "UsePkg", "UseTest", "UseDocs">>

StructureCfgs ==
    {[f \in ConfigFields |->
        IF f \in Range(StructureFlags) THEN f \in on
        ELSE IF f = "Type" THEN t
        ELSE NewDefaultProjectConfig[f]] :
        on \in SUBSET Range(StructureFlags), t \in TypeValues \ {""}}

GenCfgs ==
    UNION { CfgsNear([NewDefaultProjectConfig EXCEPT !.Type = t], MaxFlips, GenDomain)
            : t \in TypeValues \ {""} }
    \cup LicenseCfgs \cup PresetCfgs \cup StructureCfgs

\* For save and load: strings that a YAML reader could take for a bool, a
\* null or a number, and every type value.
YamlStrings == {"", "demo", "true", "null", "123"}

YamlDomain ==
    [f \in ConfigFields |->
        CASE f \in Range(BoolFields) -> BOOLEAN
          [] f = "Type" -> TypeValues \cup YamlStrings
          [] OTHER -> YamlStrings]

SaveCfgs == CfgsNear(NewDefaultProjectConfig, MaxFlips, YamlDomain)

\* The config files a user writes by hand: a marshalled config, possibly with
\* one scalar written another way (a word for a flag, a quoted flag, a bare
\* number or null for a string), with an unknown key, or with keys left out.
AllKeys == {YamlKey(f) : f \in ConfigFields}

OddScalars ==
    {Plain("demo"), Plain("unknown"), Plain("123"), Plain("true"), Plain("null"),
     Quoted("true"), Quoted("")}

\* The keys of the valid config of TestLoadConfigFromFile.
TestKeys ==
    {"name", "module", "description", "license", "author", "type",
     "use_cmd", "use_cobra", "use_viper"}

Restrict(doc, keys) == [k \in DOMAIN doc \cap keys |-> doc[k]]

FullDocs ==
    {yamlMarshal(c) : c \in CfgsNear(NewDefaultProjectConfig, 1, YamlDomain)}
    \cup {[yamlMarshal(NewCLIProjectConfig) EXCEPT ![k] = n] :
            k \in AllKeys, n \in OddScalars}
    \cup {("extra" :> Plain("demo")) @@ yamlMarshal(NewAPIProjectConfig)}

UserDocs ==
    {Restrict(d, keys) :
        d \in FullDocs,
        keys \in {AllKeys, TestKeys, {}} \cup {AllKeys \ {k} : k \in AllKeys}}

\* Where config files are saved and loaded.
ConfigPath == <<"conf", "gogo-config.yaml">>
MissingPath == <<"conf", "nonexistent.yaml">>

----------------------------------------------------------------------------
(***************************************************************************)
(* The state machine.                                                      *)
(***************************************************************************)
NoLoad == [path |-> <<>>, cfg |-> <<>>, err |-> ""]
NoSave == [path |-> <<>>, cfg |-> <<>>, err |-> ""]

EmptyFS == <<>>

\* No earlier call on the directory; no `gogo new` process.
NoRun == [dirs |-> {}, files |-> EmptyFS, done |-> FALSE]
NoProc == [pc |-> "none"]

InitCommon ==
    /\ fsDirs = {}
    /\ fsFiles = EmptyFS
    /\ genState = "idle"
    /\ pending = <<>>
    /\ log = <<>>
    /\ failed = <<>>
    /\ genErr = "nil"
    /\ loadRes = NoLoad
    /\ saveRes = NoSave
    /\ firstRun = NoRun

\* GenerateProject is called with any of the checked configs, at any time,
\* on an empty output directory.
Init ==
    /\ InitCommon
    /\ cfg \in GenCfgs
    /\ cfgFrom = [by |-> "caller", arg |-> ""]
    /\ now \in Times
    /\ proc = NoProc

\* The call of GenerateProject(cfg, outputDir).
GenerateProjectCall ==
    /\ genState = "idle"
    /\ genState' = "running"
    /\ pending' = GenerateProjectOps(cfg, now)
    /\ log' = <<>>
    /\ failed' = <<>>
    /\ genErr' = "nil"
    /\ UNCHANGED <<cfg, now, fsDirs, fsFiles, cfgFrom, loadRes, saveRes>>
    /\ UNCHANGED runVars

\* Whether the file system lets the os call through.
CanDo(op) ==
    IF op.kind = "mkdir"
    THEN CanMkdirAll(fsFiles, op.path)
    ELSE CanWriteFile(fsDirs, fsFiles, op.path)

\* The os call of a generator that clears a directory (os.RemoveAll) before
\* it makes it.
OsCallSucceedsClearing ==
    /\ genState = "running"
    /\ pending # <<>>
    /\ LET op == Head(pending)
           under(p) == Len(p) > Len(op.path)
                       /\ SubSeq(p, 1, Len(op.path)) = op.path
       IN
       /\ CanDo(op)
       /\ IF op.kind = "mkdir"
          THEN /\ fsDirs' = {d \in fsDirs : ~under(d)} \cup Prefixes(op.path)
               /\ fsFiles' = [p \in {q \in DOMAIN fsFiles : ~under(q)} |->
                                 fsFiles[p]]
          ELSE /\ fsFiles' = (op.path :> op.content) @@ fsFiles
               /\ UNCHANGED fsDirs
       /\ log' = Append(log, op)
    /\ pending' = Tail(pending)
    /\ UNCHANGED <<cfg, now, genState, failed, genErr, cfgFrom, loadRes, saveRes>>
    /\ UNCHANGED runVars

\* The next os call succeeds: the directories are made, or the file is
\* written over whatever was there.
OsCallSucceeds ==
    /\ genState = "running"
    /\ pending # <<>>
    /\ LET op == Head(pending) IN
       /\ CanDo(op)
       /\ IF op.kind = "mkdir"
          THEN /\ fsDirs' = fsDirs \cup Prefixes(op.path)
               /\ UNCHANGED fsFiles
          ELSE /\ fsFiles' = (op.path :> op.content) @@ fsFiles
               /\ UNCHANGED fsDirs
       /\ log' = Append(log, op)
    /\ pending' = Tail(pending)
    /\ UNCHANGED <<cfg, now, genState, failed, genErr, cfgFrom, loadRes, saveRes>>
    /\ UNCHANGED runVars

\* The next os call fails (permissions, a full disk, a file in the way): the
\* function that made it returns the error, and so does GenerateProject.
OsCallFails ==
    /\ genState = "running"
    /\ pending # <<>>
    /\ LET op == Head(pending) IN
       /\ failed' = Append(failed, op)
       /\ IF op.check
          THEN /\ genState' = "returned"
               /\ genErr' = op.by
               /\ pending' = <<>>
          ELSE /\ pending' = Tail(pending)
               /\ UNCHANGED <<genState, genErr>>
    /\ UNCHANGED <<cfg, now, fsDirs, fsFiles, log, cfgFrom, loadRes, saveRes>>
    /\ UNCHANGED runVars

\* Every step is done: return nil.
GenerateProjectReturn ==
    /\ genState = "running"
    /\ pending = <<>>
    /\ genState' = "returned"
    /\ UNCHANGED <<cfg, now, fsDirs, fsFiles, pending, log, failed, genErr,
                   cfgFrom, loadRes, saveRes>>
    /\ UNCHANGED runVars

Next ==
    \/ GenerateProjectCall
    \/ OsCallSucceeds
    \/ OsCallFails
    \/ GenerateProjectReturn

Spec == Init /\ [][Next]_vars

----------------------------------------------------------------------------
(***************************************************************************)
(* GenerateProject called again: the same config and output directory,     *)
(* over what the first call left there.                                    *)
(***************************************************************************)
\* The configs generated twice: the presets, named and unnamed, every
\* license, every combination of the structure flags.
RegenCfgs ==
    PresetCfgs \cup LicenseCfgs \cup StructureCfgs
    \cup {[GetProjectConfigForType(t) EXCEPT !.Name = ""] : t \in TypeValues}

InitRegen ==
    /\ InitCommon
    /\ cfg \in RegenCfgs
    /\ cfgFrom = [by |-> "caller", arg |-> ""]
    /\ now \in Times
    /\ proc = NoProc

\* The second call of GenerateProject(cfg, outputDir), after the first
\* returned nil, at the same time or another.
GenerateProjectAgain ==
    /\ genState = "returned"
    /\ genErr = "nil"
    /\ ~firstRun.done
    /\ firstRun' = [dirs |-> fsDirs, files |-> fsFiles, done |-> TRUE]
    /\ genState' = "running"
    /\ \E t \in Times :
          /\ now' = t
          /\ pending' = GenerateProjectOps(cfg, t)
    /\ log' = <<>>
    /\ failed' = <<>>
    /\ genErr' = "nil"
    /\ UNCHANGED <<cfg, fsDirs, fsFiles, cfgFrom, loadRes, saveRes, proc>>

NextRegen ==
    \/ GenerateProjectCall
    \/ OsCallSucceeds
    \/ OsCallFails
    \/ GenerateProjectReturn
    \/ GenerateProjectAgain

SpecRegen == InitRegen /\ [][NextRegen]_vars

----------------------------------------------------------------------------
(***************************************************************************)
(* GenerateProject called a second time with any config, after the first   *)
(* call returned nil or an error, on the same output directory.            *)
(***************************************************************************)
\* The configs of the two calls: the preset of every type named demo, the
\* library preset without a name, the default preset with no optional file.
SeqCfgs ==
    PresetCfgs
    \cup {[NewLibraryProjectConfig EXCEPT !.Name = ""],
          [f \in ConfigFields |->
              IF f \in Range(BoolFields) THEN FALSE
              ELSE [NewDefaultProjectConfig EXCEPT !.Name = "demo"][f]]}

InitSeq ==
    /\ InitCommon
    /\ cfg \in SeqCfgs
    /\ cfgFrom = [by |-> "caller", arg |-> ""]
    /\ now \in Times
    /\ proc = NoProc

\* The second call, GenerateProject(c, outputDir), whatever the first
\* returned.
GenerateProjectOther ==
    /\ genState = "returned"
    /\ ~firstRun.done
    /\ firstRun' = [dirs |-> fsDirs, files |-> fsFiles, done |-> TRUE]
    /\ genState' = "running"
    /\ \E c \in SeqCfgs :
          /\ cfg' = c
          /\ pending' = GenerateProjectOps(c, now)
    /\ log' = <<>>
    /\ failed' = <<>>
    /\ genErr' = "nil"
    /\ UNCHANGED <<now, fsDirs, fsFiles, cfgFrom, loadRes, saveRes, proc>>

NextSeq ==
    \/ GenerateProjectCall
    \/ OsCallSucceeds
    \/ OsCallFails
    \/ GenerateProjectReturn
    \/ GenerateProjectOther

SpecSeq == InitSeq /\ [][NextSeq]_vars

----------------------------------------------------------------------------
(***************************************************************************)
(* internal/wizard: RunWizard(cfg).  The user's part is the answers: what  *)
(* is typed at each Input ("" is Enter, which takes the default), the      *)
(* option taken at each Select ("" is Enter on the default), the boxes of  *)
(* the MultiSelects and the CI/CD Confirm the user toggles, the final      *)
(* confirmation, and the prompt at which survey.AskOne returns an error    *)
(* (stopAt: 0 is none), an interrupt or another error.                     *)
(***************************************************************************)
\* The prompts, in order; the last is the confirmation.
WizardPrompts ==
    <<"name", "module", "description", "author", "license", "type",
      "structure", "files", "tools", "deps", "cicd", "confirm">>

ErrWizardCancelled == "wizard cancelled"
ErrInterrupt == "interrupt"
ErrPrompt == "prompt error"
ErrNotConfirmed == "project generation cancelled"

\* survey.Input with a default.
AskInput(default, typed) == IF typed = "" THEN default ELSE typed

\* survey.Select with a default: Enter takes the default when it is one of
\* the options, the first option otherwise.
AskSelect(options, default, taken) ==
    IF taken # "" THEN taken
    ELSE IF default \in Range(options) THEN default ELSE options[1]

\* The fields a MultiSelect (or the CI/CD Confirm) sets: the default is the
\* field's value, the user toggles some boxes.
AskBoxes(c, fields, toggled) ==
    [f \in ConfigFields |->
        IF f \in fields /\ f \in toggled THEN ~c[f] ELSE c[f]]

\* The type step applying the flags of the type whether it changed or not.
WizardSetTypeAlways(c, t) ==
    LET d == [c EXCEPT !.Type = t] IN
    CASE t = TypeCLI -> [d EXCEPT !.UseCobra = TRUE, !.UseViper = TRUE]
      [] t = TypeAPI -> [d EXCEPT !.UseGin = TRUE]
      [] t = TypeLibrary -> [d EXCEPT !.UseCmd = FALSE]
      [] OTHER -> d

\* The type step: the preset flags of the new type are applied only when the
\* type has changed.
WizardSetType(c, t) ==
    LET d == [c EXCEPT !.Type = t] IN
    IF c.Type = t THEN d
    ELSE CASE t = TypeCLI -> [d EXCEPT !.UseCobra = TRUE, !.UseViper = TRUE]
           [] t = TypeAPI -> [d EXCEPT !.UseGin = TRUE]
           [] t = TypeLibrary -> [d EXCEPT !.UseCmd = FALSE]
           [] OTHER -> d

\* RunWizard(cfg): the config as the prompts answered so far have left it
\* (cfg is changed in place, also when a later prompt fails), and the error.
RunWizard(c, a) ==
    LET ok(i) == a.stopAt = 0 \/ a.stopAt > i
        c1 == IF ok(1) THEN [c EXCEPT !.Name = AskInput(c.Name, a.name)] ELSE c
        c2 == IF ok(2)
              THEN [c1 EXCEPT !.Module = AskInput(c1.Module, a.module)] ELSE c1
        c3 == IF ok(3)
              THEN [c2 EXCEPT !.Description =
                                 AskInput(c2.Description, a.description)]
              ELSE c2
        c4 == IF ok(4)
              THEN [c3 EXCEPT !.Author = AskInput(c3.Author, a.author)] ELSE c3
        c5 == IF ok(5)
              THEN [c4 EXCEPT !.License =
                      AskSelect(<<"MIT", "Apache-2.0", "GPL-3.0",
                                  "BSD-3-Clause", "None">>,
                                c4.License, a.license)]
              ELSE c4
        c6 == IF ok(6)
              THEN WizardSetType(c5,
                      AskSelect(<<TypeDefault, TypeCLI, TypeAPI, TypeLibrary>>,
                                c5.Type, a.type))
              ELSE c5
        c7 == IF ok(7) THEN AskBoxes(c6, Range(StructureFlags), a.toggled)
              ELSE c6
        c8 == IF ok(8)
              THEN AskBoxes(c7, {"CreateReadme", "CreateLicense",
                                 "CreateMakefile"}, a.toggled)
              ELSE c7
        c9 == IF ok(9)
              THEN AskBoxes(c8, {"UseLinters", "UsePreCommitHooks",
                                 "UseGitHooks"}, a.toggled)
              ELSE c8
        c10 == IF ok(10) THEN AskBoxes(c9, {"UseCobra", "UseViper"}, a.toggled)
               ELSE c9
        c11 == IF ok(11) THEN AskBoxes(c10, {"UseGitHubActions"}, a.toggled)
               ELSE c10
    IN  [cfg |-> c11,
         err |-> IF a.stopAt = 0
                 THEN IF a.confirm THEN "" ELSE ErrNotConfirmed
                 ELSE IF ~a.interrupt THEN ErrPrompt
                 ELSE IF a.stopAt <= 6 THEN ErrWizardCancelled
                 ELSE ErrInterrupt]

----------------------------------------------------------------------------
(***************************************************************************)
(* cmd/gogo/new.go and main.go: a run of `gogo new [project-name]`.  main  *)
(* calls Execute, cobra checks the arguments and calls newCmd.Run, which   *)
(* builds projectConfig, runs the wizard and calls GenerateProject; main   *)
(* exits on what Execute returned.  Printed lines are <<format, value>>.   *)
(***************************************************************************)
ErrTooManyArgs == "accepts at most 1 arg(s), received 2"

\* Args: cobra.MaximumNArgs(1).
CobraArgsError(args) == IF Len(args) > 1 THEN ErrTooManyArgs ELSE ""

\* What Execute returns to main: the error of rootCmd.Execute(), which is
\* cobra's own (a Run function returns nothing).
ExecuteResult(cobraErr) == cobraErr

\* The switch without its library case.
ConfigForAppTypeNoLibrary(appType) ==
    CASE appType = "cli" -> [cfg |-> NewCLIProjectConfig, out |-> <<>>]
      [] appType = "api" -> [cfg |-> NewAPIProjectConfig, out |-> <<>>]
      [] OTHER ->
            [cfg |-> NewDefaultProjectConfig,
             out |-> <<<<"Unknown project type: %s. Using default.", appType>>>>]

\* The switch on --type in newCmd.Run: the config, and what it prints.
ConfigForAppType(appType) ==
    CASE appType = "cli" -> [cfg |-> NewCLIProjectConfig, out |-> <<>>]
      [] appType = "api" -> [cfg |-> NewAPIProjectConfig, out |-> <<>>]
      [] appType = "library" -> [cfg |-> NewLibraryProjectConfig, out |-> <<>>]
      [] OTHER ->
            [cfg |-> NewDefaultProjectConfig,
             out |-> <<<<"Unknown project type: %s. Using default.", appType>>>>]

\* The command lines checked: no name, a name, a name too many; --config
\* unset, a file, a file that is not there; --type; --skip-wizard.
NewArgs == {<<>>, <<"demo">>, <<"demo", "extra">>}
NewConfigFiles == {<<>>, ConfigPath, MissingPath}
NewAppTypes == {"", "cli", "api", "library", "default", "unknown"}

\* --module/-m: unset, or the module of TestNewCommandFlags.
NewModuleNames == {"", "github.com/custom/module"}

\* The config files found at ConfigPath: none, the file of a saved config,
\* the valid file of TestLoadConfigFromFile, the same without its name key,
\* a malformed one.
NewFiles ==
    {EmptyFS,
     ConfigPath :> YamlFile(yamlMarshal([NewAPIProjectConfig
                                            EXCEPT !.Name = "my-project"])),
     ConfigPath :> YamlFile(Restrict(yamlMarshal(NewCLIProjectConfig), TestKeys)),
     ConfigPath :> YamlFile(Restrict(yamlMarshal(NewCLIProjectConfig),
                                     TestKeys \ {"name"})),
     ConfigPath :> MalformedFile}

\* What the user does at the wizard: Enter at every prompt, one answer of
\* their own, no at the confirmation, or a prompt that fails.
EnterAll ==
    [stopAt |-> 0, interrupt |-> FALSE, name |-> "", module |-> "",
     description |-> "", author |-> "", license |-> "", type |-> "",
     toggled |-> {}, confirm |-> TRUE]

WizardAnswers ==
    {EnterAll,
     [EnterAll EXCEPT !.name = "demo", !.module = "example.com/demo"],
     [EnterAll EXCEPT !.author = "Ann", !.license = "None"],
     [EnterAll EXCEPT !.type = TypeCLI],
     [EnterAll EXCEPT !.type = TypeLibrary],
     [EnterAll EXCEPT !.toggled = {"UseCmd", "CreateLicense", "UseGitHooks",
                                   "UseViper", "UseGitHubActions"}],
     [EnterAll EXCEPT !.confirm = FALSE]}
    \cup {[EnterAll EXCEPT !.stopAt = i, !.interrupt = b] :
            i \in 1..Len(WizardPrompts), b \in BOOLEAN}

\* The process starts: projectConfig is nil, nothing is printed.
InitNew ==
    /\ fsFiles \in NewFiles
    /\ fsDirs = IF fsFiles = EmptyFS THEN {} ELSE Prefixes(Parent(ConfigPath))
    /\ genState = "idle"
    /\ pending = <<>>
    /\ log = <<>>
    /\ failed = <<>>
    /\ genErr = "nil"
    /\ loadRes = NoLoad
    /\ saveRes = NoSave
    /\ firstRun = NoRun
    /\ cfg = ZeroProjectConfig
    /\ cfgFrom = [by |-> "nil", arg |-> ""]
    /\ now \in Times
    /\ \E args \in NewArgs, configFile \in NewConfigFiles,
          appType \in NewAppTypes, skipWizard \in BOOLEAN,
          moduleName \in NewModuleNames :
          proc = [pc |-> "main", args |-> args, configFile |-> configFile,
                  appType |-> appType, skipWizard |-> skipWizard,
                  moduleName |-> moduleName,
                  err |-> [from |-> "", msg |-> ""], execErr |-> "",
                  stdout |-> <<>>, stderr |-> <<>>, exit |-> -1]

\* What the Run function leaves unchanged unless it says otherwise.
RunKeeps == UNCHANGED <<now, fsDirs, fsFiles, genVars, loadRes, saveRes, firstRun>>

\* Run returns after printing an error with fmt.Printf.
RunFails(from, format, msg) ==
    proc' = [proc EXCEPT !.pc = "executed",
                         !.err = [from |-> from, msg |-> msg],
                         !.stdout = Append(@, <<format, msg>>)]

\* main calls Execute; cobra checks the arguments of `new` and either
\* returns its error or calls newCmd.Run.
MainCallsExecute ==
    /\ proc.pc = "main"
    /\ LET e == CobraArgsError(proc.args) IN
       proc' = IF e # ""
               THEN [proc EXCEPT !.pc = "executed", !.execErr = ExecuteResult(e)]
               ELSE [proc EXCEPT !.pc = "run"]
    /\ UNCHANGED <<cfg, cfgFrom>>
    /\ RunKeeps

\* Run, "Initialize config based on provided options": --config, else
\* --type, else the default config.
RunInitConfig ==
    /\ proc.pc = "run"
    /\ IF proc.configFile # <<>>
       THEN LET res == LoadConfigFromFile(fsFiles, proc.configFile) IN
            IF res.err # ""
            THEN /\ RunFails("load", "Error loading config file: %v", res.err)
                 /\ UNCHANGED <<cfg, cfgFrom>>
            ELSE /\ cfg' = res.cfg[1]
                 /\ cfgFrom' = [by |-> "LoadConfigFromFile", arg |-> ""]
                 /\ proc' = [proc EXCEPT
                        !.pc = "name",
                        !.stdout = Append(@, <<"Loaded configuration from %s",
                                               "configFile">>)]
       ELSE IF proc.appType # ""
       THEN LET r == ConfigForAppType(proc.appType) IN
            /\ cfg' = r.cfg
            /\ cfgFrom' = [by |-> "appType", arg |-> proc.appType]
            /\ proc' = [proc EXCEPT
                   !.pc = "name",
                   !.stdout = @ \o r.out
                              \o <<<<"Using %s project template", proc.appType>>>>]
       ELSE /\ cfg' = NewDefaultProjectConfig
            /\ cfgFrom' = [by |-> "NewDefaultProjectConfig", arg |-> ""]
            /\ proc' = [proc EXCEPT !.pc = "name"]
    /\ RunKeeps

\* Run, "If a project name is provided, use it".
RunSetName ==
    /\ proc.pc = "name"
    /\ cfg' = IF Len(proc.args) > 0 THEN [cfg EXCEPT !.Name = proc.args[1]]
              ELSE cfg
    /\ proc' = [proc EXCEPT !.pc = "wizard"]
    /\ UNCHANGED cfgFrom
    /\ RunKeeps

\* The wizard step of a Run that prints the wizard's error and goes on.
RunWizardStepGoingOn ==
    /\ proc.pc = "wizard"
    /\ IF proc.skipWizard
       THEN /\ proc' = [proc EXCEPT !.pc = "generate"]
            /\ UNCHANGED cfg
       ELSE \E a \in WizardAnswers :
               LET r == RunWizard(cfg, a) IN
               /\ cfg' = r.cfg
               /\ IF r.err # ""
                  THEN proc' = [proc EXCEPT
                          !.pc = "generate",
                          !.err = [from |-> "wizard", msg |-> r.err],
                          !.stdout = Append(@, <<"Error in wizard: %v", r.err>>)]
                  ELSE proc' = [proc EXCEPT !.pc = "generate"]
    /\ UNCHANGED cfgFrom
    /\ RunKeeps

\* Run, "Run the interactive wizard", unless --skip-wizard.
RunWizardStep ==
    /\ proc.pc = "wizard"
    /\ IF proc.skipWizard
       THEN /\ proc' = [proc EXCEPT !.pc = "generate"]
            /\ UNCHANGED cfg
       ELSE \E a \in WizardAnswers :
               LET r == RunWizard(cfg, a) IN
               /\ cfg' = r.cfg
               /\ IF r.err # ""
                  THEN RunFails("wizard", "Error in wizard: %v", r.err)
                  ELSE proc' = [proc EXCEPT !.pc = "generate"]
    /\ UNCHANGED cfgFrom
    /\ RunKeeps

\* Run, "Generate the project": the call of GenerateProject(projectConfig,
\* outputDir).
RunCallsGenerateProject ==
    /\ proc.pc = "generate"
    /\ genState = "idle"
    /\ genState' = "running"
    /\ pending' = GenerateProjectOps(cfg, now)
    /\ log' = <<>>
    /\ failed' = <<>>
    /\ genErr' = "nil"
    /\ proc' = [proc EXCEPT !.pc = "generating"]
    /\ UNCHANGED <<cfg, now, fsDirs, fsFiles, cfgFrom, loadRes, saveRes, firstRun>>

\* Run, after GenerateProject returned: the error is printed and Run
\* returns, or the success message and the next steps are printed.
RunAfterGenerate ==
    /\ proc.pc = "generating"
    /\ genState = "returned"
    /\ IF genErr # "nil"
       THEN RunFails("generate", "Error generating project: %v", genErr)
       ELSE proc' = [proc EXCEPT
               !.pc = "executed",
               !.stdout = @ \o <<<<"Successfully created project %s in %s",
                                   cfg.Name>>,
                                 <<"Next steps:", "">>>>]
    /\ UNCHANGED <<cfg, cfgFrom>>
    /\ RunKeeps

\* main, after Execute returned: an error is printed to os.Stderr and the
\* process exits with status 1; otherwise main returns, status 0.
MainExits ==
    /\ proc.pc = "executed"
    /\ proc' = IF proc.execErr # ""
               THEN [proc EXCEPT !.pc = "exited",
                                 !.stderr = Append(@, <<"%v", proc.execErr>>),
                                 !.exit = 1]
               ELSE [proc EXCEPT !.pc = "exited", !.exit = 0]
    /\ UNCHANGED <<cfg, cfgFrom>>
    /\ RunKeeps

NextNew ==
    \/ MainCallsExecute
    \/ RunInitConfig
    \/ RunSetName
    \/ RunWizardStep
    \/ RunCallsGenerateProject
    \/ OsCallSucceeds
    \/ OsCallFails
    \/ GenerateProjectReturn
    \/ RunAfterGenerate
    \/ MainExits

SpecNew == InitNew /\ [][NextNew]_vars

----------------------------------------------------------------------------
(***************************************************************************)
(* RunWizard called on its own: on a config of any Type (a loaded one may   *)
(* have an unrecognized or empty Type) whose flags are those of any        *)
(* preset, with the answers of a user who selects a type,     *)
(* toggles some boxes, confirms or not, or is stopped at a prompt.  The    *)
(* call is recorded with the config before it and the answers.             *)
(***************************************************************************)
WizardCfgs ==
    {[GetProjectConfigForType(t) EXCEPT !.Type = u] : t, u \in TypeValues}

WizardInputs ==
    {[stopAt |-> i, interrupt |-> b, name |-> "", module |-> "",
      description |-> "", author |-> "", license |-> "", type |-> t,
      toggled |-> g, confirm |-> y] :
        i \in 0..Len(WizardPrompts), b \in BOOLEAN,
        t \in {"", TypeDefault, TypeCLI, TypeAPI, TypeLibrary},
        g \in {{}, {"UseCmd", "UseCobra"}},
        y \in BOOLEAN}

InitWizard ==
    /\ InitCommon
    /\ cfg \in WizardCfgs
    /\ cfgFrom = [by |-> "caller", arg |-> ""]
    /\ now \in Times
    /\ proc = NoProc

\* err := RunWizard(cfg)
CallRunWizard ==
    /\ proc = NoProc
    /\ \E a \in WizardInputs :
          LET r == RunWizard(cfg, a) IN
          /\ cfg' = r.cfg
          /\ proc' = [pc |-> "wizard returned", before |-> cfg,
                      answers |-> a, err |-> r.err]
    /\ UNCHANGED <<now, fsDirs, fsFiles, genVars, cfgFrom, loadRes, saveRes,
                   firstRun>>

NextWizard == CallRunWizard

SpecWizard == InitWizard /\ [][NextWizard]_vars

----------------------------------------------------------------------------
(***************************************************************************)
(* The configuration model at work: a run builds a config (a preset, or    *)
(* fields the caller sets), saves it or finds a file the user wrote, and   *)
(* loads.  loadRes is forgotten whenever the file system changes.          *)
(***************************************************************************)
InitConfig ==
    /\ InitCommon
    /\ cfg = NewDefaultProjectConfig
    /\ cfgFrom = [by |-> "NewDefaultProjectConfig", arg |-> ""]
    /\ now \in Times
    /\ proc = NoProc

Untouched == fsFiles = EmptyFS /\ fsDirs = {} /\ saveRes = NoSave

\* cfg := GetProjectConfigForType(projType)
CallGetProjectConfigForType ==
    /\ cfgFrom.by = "NewDefaultProjectConfig"
    /\ Untouched
    /\ \E projType \in TypeValues :
          /\ cfg' = GetProjectConfigForType(projType)
          /\ cfgFrom' = [by |-> "GetProjectConfigForType", arg |-> projType]
    /\ UNCHANGED <<now, fsDirs, fsFiles, genVars, loadRes, saveRes>>
    /\ UNCHANGED runVars

\* The caller sets fields of the config it built.
CallerSetsFields ==
    /\ cfgFrom.by = "NewDefaultProjectConfig"
    /\ Untouched
    /\ cfg' \in SaveCfgs
    /\ cfgFrom' = [by |-> "caller", arg |-> ""]
    /\ UNCHANGED <<now, fsDirs, fsFiles, genVars, loadRes, saveRes>>
    /\ UNCHANGED runVars

\* The user writes a config file by hand, well-formed or not.
UserWritesConfigFile ==
    /\ cfgFrom.by = "NewDefaultProjectConfig"
    /\ Untouched
    /\ fsDirs' = fsDirs \cup Prefixes(Parent(ConfigPath))
    /\ \E file \in {YamlFile(d) : d \in UserDocs} \cup {MalformedFile} :
          fsFiles' = (ConfigPath :> file) @@ fsFiles
    /\ loadRes' = NoLoad
    /\ UNCHANGED <<cfg, now, genVars, cfgFrom, saveRes>>
    /\ UNCHANGED runVars

\* SaveConfigToFile(cfg, filePath): MkdirAll of the directory, Marshal, and
\* WriteFile, each error returned; over no file or over a malformed one.
CallSaveConfigToFile ==
    /\ saveRes = NoSave
    /\ ConfigPath \in DOMAIN fsFiles => fsFiles[ConfigPath] = MalformedFile
    /\ \E mkdirOK, writeOK \in BOOLEAN :
          LET dir == Parent(ConfigPath) IN
          IF ~(mkdirOK /\ CanMkdirAll(fsFiles, dir))
          THEN /\ saveRes' = [path |-> ConfigPath, cfg |-> <<cfg>>, err |-> ErrMkdir]
               /\ UNCHANGED <<fsDirs, fsFiles>>
          ELSE /\ fsDirs' = fsDirs \cup Prefixes(dir)
               /\ IF ~(writeOK /\ CanWriteFile(fsDirs', fsFiles, ConfigPath))
                  THEN /\ saveRes' = [path |-> ConfigPath, cfg |-> <<cfg>>,
                                      err |-> ErrWrite]
                       /\ UNCHANGED fsFiles
                  ELSE /\ saveRes' = [path |-> ConfigPath, cfg |-> <<cfg>>,
                                      err |-> ""]
                       /\ fsFiles' = (ConfigPath :> YamlFile(yamlMarshal(cfg)))
                                        @@ fsFiles
    /\ loadRes' = NoLoad
    /\ UNCHANGED <<cfg, now, genVars, cfgFrom>>
    /\ UNCHANGED runVars

\* LoadConfigFromFile(filePath)
CallLoadConfigFromFile ==
    /\ \E filePath \in {ConfigPath, MissingPath} :
          LET res == LoadConfigFromFile(fsFiles, filePath) IN
          loadRes' = [path |-> filePath, cfg |-> res.cfg, err |-> res.err]
    /\ UNCHANGED <<cfg, now, fsDirs, fsFiles, genVars, cfgFrom, saveRes>>
    /\ UNCHANGED runVars

NextConfig ==
    \/ CallGetProjectConfigForType
    \/ CallerSetsFields
    \/ UserWritesConfigFile
    \/ CallSaveConfigToFile
    \/ CallLoadConfigFromFile

SpecConfig == InitConfig /\ [][NextConfig]_vars

----------------------------------------------------------------------------
(***************************************************************************)
(* The claims about GenerateProject, checked under Spec.                   *)
(***************************************************************************)
\* The project directory, as the claims name it: <outputDir>/<Name>.
ProjectDir == IF cfg.Name = "" THEN <<>> ELSE <<cfg.Name>>

InProject(elems) == ProjectDir \o elems

Succeeded == genState = "returned" /\ genErr = "nil"

IsPrefix(s, t) == Len(s) <= Len(t) /\ s = SubSeq(t, 1, Len(s))

\* C1: GenerateProject is fail-fast without rollback and swallows no failure.
\* Once an os call has failed, GenerateProject has returned a non-nil error,
\* that call was the only one to fail, and the calls made are exactly those
\* that precede it in program order (none of the step's remainder, none of a
\* later step); everything made before is still there; and GenerateProject
\* returns nil only after every call of the run succeeded.
C1_FailFastNoRollback ==
    /\ failed # <<>> =>
          /\ genState = "returned"
          /\ genErr # "nil"
          /\ Len(failed) = 1
          /\ IsPrefix(log \o failed, GenerateProjectOps(cfg, now))
    /\ \A i \in 1..Len(log) :
          IF log[i].kind = "write"
          THEN log[i].path \in DOMAIN fsFiles
          ELSE Prefixes(log[i].path) \subseteq fsDirs
    /\ Succeeded =>
          /\ failed = <<>>
          /\ log = GenerateProjectOps(cfg, now)

\* A write failed after the root files and the structure were written.
C1_Witness ==
    /\ genState = "returned"
    /\ genErr = "generatePreCommitConfig"
    /\ failed # <<>>
    /\ failed[1].path = InProject(<<".commitlintrc.yaml">>)
    /\ InProject(<<".pre-commit-config.yaml">>) \in DOMAIN fsFiles

\* The files of the four initial-code branches.
CLICodeFiles ==
    {InProject(<<"cmd">>) \o ProjectDir \o <<"main.go">>,
     InProject(<<"cmd">>) \o ProjectDir \o <<"cmd", "root.go">>,
     InProject(<<"cmd">>) \o ProjectDir \o <<"cmd", "version.go">>}

APICodeFiles ==
    {InProject(<<"cmd">>) \o ProjectDir \o <<"main.go">>,
     InProject(<<"internal", "config", "config.go">>),
     InProject(<<"internal", "api", "server.go">>)}

LibraryCodeFiles ==
    {InProject(<<"pkg">>) \o ProjectDir \o <<LibFileName(cfg.Name)>>,
     InProject(<<"pkg">>) \o ProjectDir \o <<LibTestFileName(cfg.Name)>>}

DefaultCodeFiles == {InProject(<<"main.go">>)}

\* C2: the initial-code branches are mutually exclusive and selected by Type
\* alone.  After a successful generation into an empty directory: cli has
\* main.go, root.go and version.go under cmd/<Name> and no server.go; api has
\* main.go, config.go and server.go and no root.go; library has its source
\* and test file and no cmd/<Name>/main.go; any other Type has, of all these
\* files, the root-level main.go only.
C2_BranchesByType ==
    Succeeded =>
        LET files == DOMAIN fsFiles IN
        CASE cfg.Type = TypeCLI ->
                /\ CLICodeFiles \subseteq files
                /\ InProject(<<"internal", "api", "server.go">>) \notin files
          [] cfg.Type = TypeAPI ->
                /\ APICodeFiles \subseteq files
                /\ InProject(<<"cmd">>) \o ProjectDir \o <<"cmd", "root.go">>
                      \notin files
          [] cfg.Type = TypeLibrary ->
                /\ LibraryCodeFiles \subseteq files
                /\ InProject(<<"cmd">>) \o ProjectDir \o <<"main.go">>
                      \notin files
          [] OTHER ->
                files \cap (CLICodeFiles \cup APICodeFiles
                            \cup LibraryCodeFiles \cup DefaultCodeFiles)
                    = DefaultCodeFiles

\* A generation of an unrecognized type succeeded and left the root main.go.
C2_Witness ==
    /\ Succeeded
    /\ cfg.Type = "unknown"
    /\ InProject(<<"main.go">>) \in DOMAIN fsFiles

\* C3: within one GenerateProject call no path is written more than once.
C3_NoPathWrittenTwice ==
    \A i, j \in 1..Len(log) :
        (i < j /\ log[i].kind = "write" /\ log[j].kind = "write")
            => log[i].path # log[j].path

IsRootFile(op) ==
    /\ op.kind = "write"
    /\ op.path \in {InProject(<<"README.md">>), InProject(<<"LICENSE">>),
                    InProject(<<".gitignore">>), InProject(<<"Makefile">>)}
IsStructure(op) == op.by = "GenerateProject.dirs"
IsInitialCode(op) ==
    op.by \in {"generateCLICode", "generateAPICode", "generateLibraryCode",
               "generateDefaultCode"}
IsGoMod(op) == op.kind = "write" /\ op.path = InProject(<<"go.mod">>)
IsWorkflow(op) == op.by = "generateGitHubWorkflows"
IsLinterConfig(op) ==
    op.kind = "write" /\ op.path = InProject(<<".golangci.yml">>)
IsPreCommit(op) ==
    /\ op.kind = "write"
    /\ op.path \in {InProject(<<".pre-commit-config.yaml">>),
                    InProject(<<".commitlintrc.yaml">>)}
IsConfigFile(op) == op.kind = "write" /\ op.path = InProject(<<"gogo.yaml">>)

\* The place of a call in the documented order (0: the order says nothing
\* of it, as of the project directory and of gogo.yaml).
StepRank(op) ==
    CASE IsRootFile(op) -> 1
      [] IsStructure(op) -> 2
      [] IsInitialCode(op) -> 3
      [] IsGoMod(op) -> 4
      [] IsWorkflow(op) -> 5
      [] IsLinterConfig(op) -> 6
      [] IsPreCommit(op) -> 7
      [] OTHER -> 0

\* C4: GenerateProject performs its steps in the documented order.  The
\* first call makes the project directory; the first file written is
\* gogo.yaml; and among the other calls the root files come first, then the
\* structural directories, the initial code, go.mod, the workflows,
\* .golangci.yml and the pre-commit files.
C4_StepOrder ==
    /\ log # <<>> => (log[1].kind = "mkdir" /\ log[1].path = ProjectDir)
    /\ \A i \in 1..Len(log) :
          log[i].kind = "write" => IsConfigFile(log[2])
    /\ LET ranks == [i \in 1..Len(log) |-> StepRank(log[i])]
           steps == SelectSeq(ranks, LAMBDA r : r # 0)
       IN  \A i \in 1..(Len(steps) - 1) : steps[i] <= steps[i + 1]

\* A run that has every step succeeded.
C4_Witness ==
    /\ Succeeded
    /\ cfg.Type = TypeAPI
    /\ cfg.UseGitHubActions /\ cfg.UseLinters /\ cfg.UsePreCommitHooks
    /\ cfg.UsePkg /\ cfg.CreateReadme /\ cfg.CreateMakefile
    /\ \E i \in 1..Len(log) : IsPreCommit(log[i])

\* C5: the generated gogo.yaml captures every ProjectConfig field: for the
\* same timestamp, a config that differs from cfg in any field (Type and
\* UseGin included) has a different gogo.yaml.
C5_ConfigFileCapturesEveryField ==
    InProject(<<"gogo.yaml">>) \in DOMAIN fsFiles =>
        LET written == fsFiles[InProject(<<"gogo.yaml">>)] IN
        /\ \A f \in Range(BoolFields) :
              ConfigFileContent([cfg EXCEPT ![f] = ~cfg[f]], now) # written
        /\ \A f \in Range(StringFields) : \A v \in TypeValues \cup {"other"} :
              v # cfg[f] =>
                  ConfigFileContent([cfg EXCEPT ![f] = v], now) # written

----------------------------------------------------------------------------
(***************************************************************************)
(* The claims about the configuration model, checked under SpecConfig.     *)
(***************************************************************************)
\* The preset table of the specification: the value of field f for type t.
PresetField(t, f) ==
    CASE f = "Type" ->
            IF t \in {"cli", "api", "library", "default"} THEN t ELSE "default"
      [] t = "cli" /\ f \in {"UseCobra", "UseViper"} -> TRUE
      [] t = "api" /\ f = "UseGin" -> TRUE
      [] t = "library" /\ f = "UseCmd" -> FALSE
      [] OTHER -> NewDefaultProjectConfig[f]

\* C6: GetProjectConfigForType(t) is NewDefaultProjectConfig() with exactly
\* the preset deltas of t applied (cli: UseCobra, UseViper; api: UseGin;
\* library: no UseCmd; default: none) and Type t; for any other t it is the
\* default config, Type "default".
C6_PresetDeltas ==
    cfgFrom.by = "GetProjectConfigForType" =>
        \A f \in ConfigFields : cfg[f] = PresetField(cfgFrom.arg, f)

\* The api preset was built.
C6_Witness ==
    /\ cfgFrom.by = "GetProjectConfigForType"
    /\ cfgFrom.arg = "api"
    /\ cfg.UseGin

Saved == saveRes.path # <<>> /\ saveRes.err = ""

Loaded == loadRes.path # <<>> /\ loadRes.err = ""

\* C7: Save/Load round trip.  A LoadConfigFromFile of the path of a
\* successful SaveConfigToFile(c, path) succeeds and yields c, field by field.
C7_SaveLoadRoundTrip ==
    (Saved /\ loadRes.path = saveRes.path) =>
        /\ loadRes.err = ""
        /\ loadRes.cfg # <<>>
        /\ \A f \in ConfigFields : loadRes.cfg[1][f] = saveRes.cfg[1][f]

\* A config whose name reads as a YAML bool, with UseGin set, came back.
C7_Witness ==
    /\ Saved
    /\ Loaded
    /\ loadRes.path = saveRes.path
    /\ saveRes.cfg[1].Name = "true"
    /\ saveRes.cfg[1].UseGin
    /\ loadRes.cfg[1].Name = "true"

\* The document of the file a load read.
LoadedDoc == fsFiles[loadRes.path].doc

\* C8: LoadConfigFromFile does not merge with defaults.  Every field whose
\* key is absent from the loaded file has its zero value in the result.
C8_AbsentFieldsAreZero ==
    Loaded =>
        \A f \in ConfigFields :
            YamlKey(f) \notin DOMAIN LoadedDoc =>
                loadRes.cfg[1][f] = IF f \in Range(BoolFields) THEN FALSE ELSE ""

\* A file with the keys of the test's valid config was loaded: UseInternal
\* and UseGitHubActions, true by default, are false.
C8_Witness ==
    /\ Loaded
    /\ DOMAIN LoadedDoc = TestKeys
    /\ NewDefaultProjectConfig.UseInternal
    /\ ~loadRes.cfg[1].UseInternal
    /\ ~loadRes.cfg[1].UseGitHubActions

\* A well-formed config document: a mapping whose flags are written as bools.
WellFormed(file) ==
    /\ file.tmpl = "yaml"
    /\ \A f \in Range(BoolFields) :
          YamlKey(f) \in DOMAIN file.doc =>
              (file.doc[YamlKey(f)].style = "plain"
               /\ file.doc[YamlKey(f)].text \in {"true", "false"})

\* The file read holds a type that is a string and none of the enum.
UnrecognizedTypeRead ==
    /\ loadRes.path \in DOMAIN fsFiles
    /\ WellFormed(fsFiles[loadRes.path])
    /\ "type" \in DOMAIN LoadedDoc
    /\ LoadedDoc["type"].text \notin {"default", "cli", "api", "library"}
    /\ ~(LoadedDoc["type"].style = "plain"
         /\ LoadedDoc["type"].text \in {"", "null", "~"})

\* C9, as claimed: loading a well-formed document whose type is not one of
\* the enum succeeds and returns a config whose Type is "default".
C9_UnknownTypeCoerced ==
    UnrecognizedTypeRead =>
        (loadRes.err = "" /\ loadRes.cfg # <<>>
         /\ loadRes.cfg[1].Type = "default")

\* C9, amended: loading a well-formed document whose type is not one of the
\* enum succeeds and returns a config whose Type is that value as written
\* (kept, not coerced); the type dispatch of the generator then takes the
\* default branch for it.
C9_UnknownTypeKept ==
    UnrecognizedTypeRead =>
        /\ loadRes.err = ""
        /\ loadRes.cfg # <<>>
        /\ loadRes.cfg[1].Type = LoadedDoc["type"].text
        /\ generateInitialCodeByType(loadRes.cfg[1], <<"out">>)
              = generateDefaultCode(loadRes.cfg[1], <<"out">>)

\* A file with `type: unknown` was loaded.
C9_Witness ==
    /\ UnrecognizedTypeRead
    /\ Loaded
    /\ LoadedDoc["type"] = Plain("unknown")

\* A file yaml.Unmarshal cannot decode into a ProjectConfig: not well-formed
\* YAML, or a flag written as a word, a number or a quoted string.
Undecodable(file) ==
    \/ file.tmpl = "malformed"
    \/ \E f \in Range(BoolFields) :
          /\ YamlKey(f) \in DOMAIN file.doc
          /\ \/ file.doc[YamlKey(f)].style = "quoted"
             \/ file.doc[YamlKey(f)].text \notin {"true", "false", "", "null", "~"}

\* C10: LoadConfigFromFile returns an error and no config when the path
\* does not exist (a read failure) and when the content does not decode (a
\* parse failure, a different error); it never returns a config together
\* with an error, so never a config of defaults in place of a failure.
C10_LoadErrors ==
    loadRes.path # <<>> =>
        /\ loadRes.path \notin DOMAIN fsFiles =>
              (loadRes.cfg = <<>> /\ loadRes.err = "failed to read config file")
        /\ (loadRes.path \in DOMAIN fsFiles /\ Undecodable(fsFiles[loadRes.path])) =>
              (loadRes.cfg = <<>> /\ loadRes.err = "failed to parse config file")
        /\ (loadRes.err # "" <=> loadRes.cfg = <<>>)

\* A file that is not well-formed YAML was read.
C10_Witness ==
    /\ loadRes.path = ConfigPath
    /\ ConfigPath \in DOMAIN fsFiles
    /\ fsFiles[ConfigPath] = MalformedFile
    /\ loadRes.err = "failed to parse config file"
    /\ loadRes.cfg = <<>>

----------------------------------------------------------------------------
(***************************************************************************)
(* The claims about what GenerateProject leaves in the project directory,  *)
(* checked under Spec.                                                     *)
(***************************************************************************)
Exists(elems) == InProject(elems) \in DOMAIN fsFiles

DirExists(elems) == InProject(elems) \in fsDirs

FileAt(elems) == fsFiles[InProject(elems)]

\* C11: after a successful generation into an empty directory, the LICENSE
\* file exists if and only if CreateLicense is set and License is not "None".
C11_LicenseIffCreateAndNotNone ==
    Succeeded =>
        (Exists(<<"LICENSE">>) <=> (cfg.CreateLicense /\ cfg.License # "None"))

\* License "None" with CreateLicense set: generation succeeds, no LICENSE.
C11_Witness ==
    /\ Succeeded
    /\ cfg.CreateLicense
    /\ cfg.License = "None"
    /\ ~Exists(<<"LICENSE">>)
    /\ Exists(<<".gitignore">>)

\* C12: a generated LICENSE is the MIT text if and only if License is "MIT";
\* every other license gives the generic text, which names the license; both
\* texts carry the year of the generation and the Author.
C12_LicenseTemplate ==
    (Succeeded /\ Exists(<<"LICENSE">>)) =>
        LET f == FileAt(<<"LICENSE">>) IN
        /\ f.tmpl = "LICENSE: MIT" <=> cfg.License = "MIT"
        /\ cfg.License # "MIT" =>
              /\ f.tmpl = "LICENSE: generic"
              /\ f.args[3] = cfg.License
        /\ f.args[1] = Year(now)
        /\ f.args[2] = cfg.Author

\* A BSD-3-Clause LICENSE with an author: the generic text.
C12_Witness ==
    /\ Succeeded
    /\ cfg \in LicenseCfgs
    /\ cfg.License = "BSD-3-Clause"
    /\ cfg.Author = "Ann"
    /\ Exists(<<"LICENSE">>)
    /\ FileAt(<<"LICENSE">>).tmpl = "LICENSE: generic"
    /\ FileAt(<<"LICENSE">>).args = <<"2026", "Ann", "BSD-3-Clause">>

\* C13: after a successful generation into an empty directory, the CI
\* workflow exists iff UseGitHubActions, the lint workflow iff UseGitHubActions
\* and UseLinters, and .golangci.yml iff UseLinters, whatever UseGitHubActions
\* is; .golangci.yml gives cfg.Module as the goimports local prefix.
C13_WorkflowsAndLinterConfig ==
    Succeeded =>
        /\ Exists(<<".github", "workflows", "ci.yml">>) <=> cfg.UseGitHubActions
        /\ Exists(<<".github", "workflows", "lint.yml">>)
              <=> (cfg.UseGitHubActions /\ cfg.UseLinters)
        /\ Exists(<<".golangci.yml">>) <=> cfg.UseLinters
        /\ Exists(<<".golangci.yml">>) =>
              FileAt(<<".golangci.yml">>) =
                  Content(".golangci.yml", <<cfg.Module>>, {})

\* Linters without GitHub Actions: the linter config alone, with the module
\* of the config in it.
C13_Witness ==
    /\ Succeeded
    /\ cfg.UseLinters
    /\ ~cfg.UseGitHubActions
    /\ cfg.Module = "example.com/demo"
    /\ FileAt(<<".golangci.yml">>).args = <<"example.com/demo">>
    /\ ~Exists(<<".github", "workflows", "ci.yml">>)
    /\ ~Exists(<<".github", "workflows", "lint.yml">>)
    /\ ~DirExists(<<".github">>)

\* The value gogo.yaml gives for a key of its template.
ConfigFileValue(file, key) ==
    file.args[CHOOSE i \in 1..Len(ConfigFileKeys) : ConfigFileKeys[i] = key]

CobraLine == "github.com/spf13/cobra v1.9.1"
ViperLine == "github.com/spf13/viper v1.19.0"

\* The cli preset named demo, of module example.com/demo.
DemoCLIConfig ==
    [GetProjectConfigForType(TypeCLI) EXCEPT !.Name = "demo",
                                             !.Module = "example.com/demo"]

\* C14: every successful generation writes go.mod, which declares the module
\* cfg.Module, has the Cobra line iff UseCobra, the Viper line iff UseViper,
\* and a require block iff one of the two is set.  For the cli preset named
\* demo of module example.com/demo, go.mod declares example.com/demo and has
\* the Cobra line, and gogo.yaml has use_cobra: true and use_viper: true.
C14_GoMod ==
    Succeeded =>
        /\ Exists(<<"go.mod">>)
        /\ LET f == FileAt(<<"go.mod">>) IN
           /\ f.tmpl = "go.mod"
           /\ f.args = <<cfg.Module>>
           /\ CobraLine \in f.parts <=> cfg.UseCobra
           /\ ViperLine \in f.parts <=> cfg.UseViper
           /\ "require" \in f.parts <=> (cfg.UseCobra \/ cfg.UseViper)
        /\ cfg = DemoCLIConfig =>
              /\ fsFiles[<<"demo", "go.mod">>].args = <<"example.com/demo">>
              /\ CobraLine \in fsFiles[<<"demo", "go.mod">>].parts
              /\ LET y == fsFiles[<<"demo", "gogo.yaml">>] IN
                 /\ ConfigFileValue(y, "dependencies.use_cobra") = "true"
                 /\ ConfigFileValue(y, "dependencies.use_viper") = "true"

\* The cli preset named demo has been generated.
C14_Witness ==
    /\ Succeeded
    /\ cfg = DemoCLIConfig
    /\ <<"demo", "go.mod">> \in DOMAIN fsFiles
    /\ fsFiles[<<"demo", "go.mod">>].parts = {"require", CobraLine, ViperLine}

\* The modules go.mod declares, and the third-party packages the generated
\* code imports.
DeclaredModules ==
    IF Exists(<<"go.mod">>)
    THEN {RequireModule(line) : line \in FileAt(<<"go.mod">>).parts} \ {""}
    ELSE {}

ImportedModules ==
    UNION {TemplateImports(fsFiles[p].tmpl) : p \in DOMAIN fsFiles}

\* C15: UseGin gates the Gin dependency and the Gin scaffold: after a
\* successful generation go.mod declares Gin if and only if UseGin is set,
\* generated code imports Gin only if UseGin is set, and the project of the
\* api preset declares Gin.
C15_GinGatedByUseGin ==
    Succeeded =>
        /\ GinModule \in DeclaredModules <=> cfg.UseGin
        /\ GinModule \in ImportedModules => cfg.UseGin
        /\ cfg \in {NewAPIProjectConfig,
                    [NewAPIProjectConfig EXCEPT !.Name = "demo",
                                                !.Module = "example.com/demo"]}
              => GinModule \in DeclaredModules

\* The top-level directory of a structure flag.
StructureDir(f) ==
    CASE f = "UseCmd" -> "cmd"
      [] f = "UseInternal" -> "internal"
      [] f = "UsePkg" -> "pkg"
      [] f = "UseDocs" -> "docs"
      [] f = "UseTest" -> "test"

\* The top-level directories the initial code of a type is put under.
TopDirsOfCode(t) ==
    CASE t = TypeCLI -> {"cmd"}
      [] t = TypeAPI -> {"cmd", "internal"}
      [] t = TypeLibrary -> {"pkg"}
      [] OTHER -> {}

\* C16 as stated: after a successful generation, for every type and every
\* combination of the flags, each of cmd, internal, pkg, test and docs exists
\* if and only if its flag is set, and then holds a .gitkeep.
C16_DirIffFlag ==
    Succeeded =>
        \A f \in Range(StructureFlags) :
            /\ DirExists(<<StructureDir(f)>>) <=> cfg[f]
            /\ cfg[f] => Exists(<<StructureDir(f), ".gitkeep">>)

\* C16: after a successful generation, a structure directory whose flag is
\* set exists and holds a .gitkeep; one whose flag is unset holds no .gitkeep,
\* and exists if and only if the initial code of the Type is put under it (cmd
\* for cli and api, internal for api, pkg for library).
C16_DirByFlagOrCode ==
    Succeeded =>
        \A f \in Range(StructureFlags) :
            LET d == StructureDir(f) IN
            /\ cfg[f] => DirExists(<<d>>) /\ Exists(<<d, ".gitkeep">>)
            /\ ~cfg[f] =>
                  /\ ~Exists(<<d, ".gitkeep">>)
                  /\ DirExists(<<d>>) <=> d \in TopDirsOfCode(cfg.Type)

\* A cli project without UseCmd: cmd is there for the code, without .gitkeep;
\* docs is there by its flag; test is not.
C16_Witness ==
    /\ Succeeded
    /\ cfg.Type = TypeCLI
    /\ ~cfg.UseCmd /\ cfg.UseDocs /\ ~cfg.UseTest
    /\ DirExists(<<"cmd">>)
    /\ ~Exists(<<"cmd", ".gitkeep">>)
    /\ Exists(<<"docs", ".gitkeep">>)
    /\ ~DirExists(<<"test">>)

\* The paths of the files GenerateProject writes for a config.
WrittenPaths(c, t) ==
    LET ops == GenerateProjectOps(c, t) IN
    {ops[i].path : i \in {j \in 1..Len(ops) : ops[j].kind = "write"}}

QualityFlags == {"UseLinters", "UsePreCommitHooks", "UseGitHooks"}

\* C17: each of UseLinters, UsePreCommitHooks and UseGitHooks gates a
\* quality-tooling config file: the files of a successful generation are those
\* written for cfg, and the config that differs from cfg in that flag alone
\* has a different set of paths (.golangci.yml for UseLinters,
\* .pre-commit-config.yaml and .commitlintrc.yaml for UsePreCommitHooks, some
\* file for UseGitHooks).
C17_QualityFlagsGatePaths ==
    Succeeded =>
        /\ DOMAIN fsFiles = WrittenPaths(cfg, now)
        /\ Exists(<<".golangci.yml">>) <=> cfg.UseLinters
        /\ Exists(<<".pre-commit-config.yaml">>) <=> cfg.UsePreCommitHooks
        /\ Exists(<<".commitlintrc.yaml">>) <=> cfg.UsePreCommitHooks
        /\ \A f \in QualityFlags :
              WrittenPaths([cfg EXCEPT ![f] = ~cfg[f]], now) # DOMAIN fsFiles

\* The root file of the command package of a CLI project.
RootGoPath == InProject(<<"cmd">>) \o ProjectDir \o <<"cmd", "root.go">>

ViperBootstrap == {"cfgFile flag", "initConfig"}

\* C18: for Type cli, the generated root.go has the Viper bootstrap (the
\* viper import, the cfgFile flag, initConfig) if and only if UseViper is
\* set; without UseViper it wires the root command only.
C18_ViperBootstrapIffUseViper ==
    (Succeeded /\ cfg.Type = TypeCLI) =>
        LET root == fsFiles[RootGoPath] IN
        /\ ViperModule \in TemplateImports(root.tmpl) <=> cfg.UseViper
        /\ ViperBootstrap \subseteq TemplateSections(root.tmpl) <=> cfg.UseViper
        /\ ~cfg.UseViper =>
              /\ TemplateSections(root.tmpl) \cap ViperBootstrap = {}
              /\ "rootCmd" \in TemplateSections(root.tmpl)

----------------------------------------------------------------------------
(***************************************************************************)
(* The claim about a second generation, checked under SpecRegen.           *)
(***************************************************************************)
\* C19: GenerateProject called a second time with the same config on the
\* directory the first call left does not fail on what is there: the
\* directory refuses none of its os calls, no path appears or disappears, and
\* when it returns nil every file of the first call has been written again
\* and holds what the second call wrote last.
C19_RegenerateInPlace ==
    firstRun.done =>
        /\ (genState = "running" /\ pending # <<>>) => CanDo(Head(pending))
        /\ fsDirs = firstRun.dirs
        /\ DOMAIN fsFiles = DOMAIN firstRun.files
        /\ Succeeded =>
              /\ DOMAIN fsFiles = WrittenPaths(cfg, now)
              /\ \A i \in 1..Len(log) :
                    log[i].kind = "write" =>
                        \/ fsFiles[log[i].path] = log[i].content
                        \/ \E j \in (i + 1)..Len(log) :
                              log[j].path = log[i].path

\* The second call has returned nil, a year after the first: the same paths,
\* the LICENSE and gogo.yaml of the second call.
C19_Witness ==
    /\ firstRun.done
    /\ Succeeded
    /\ cfg.Type = TypeAPI
    /\ Exists(<<"LICENSE">>)
    /\ firstRun.files[InProject(<<"LICENSE">>)].args[1] = "2025"
    /\ FileAt(<<"LICENSE">>).args[1] = "2026"
    /\ firstRun.files[InProject(<<"gogo.yaml">>)] # FileAt(<<"gogo.yaml">>)
    /\ DOMAIN fsFiles = DOMAIN firstRun.files

----------------------------------------------------------------------------
(***************************************************************************)
(* The claims about the `new` command, checked under SpecNew.              *)
(***************************************************************************)
Exited == proc.pc = "exited"

\* The error Run met is among the lines printed to the stream.
ErrorPrintedTo(stream) ==
    \E i \in 1..Len(stream) : stream[i][2] = proc.err.msg

\* C20: every run of `new` in which loading the config file, the wizard or
\* GenerateProject returns an error prints that error to standard error and
\* exits with a non-zero status; status 0 only after a successful generation.
C20_ErrorsExitNonZero ==
    Exited =>
        /\ proc.err.from \in {"load", "wizard", "generate"} =>
              /\ ErrorPrintedTo(proc.stderr)
              /\ proc.exit # 0
        /\ proc.exit = 0 => Succeeded


\* C21: when `new` is run with --module <path> and the wizard is skipped, the
\* config given to GenerateProject has Module = <path>, whatever the module
\* of the default, preset or loaded config, and the go.mod generated declares
\* that module.
C21_ModuleFlagOverrides ==
    (proc.pc = "generating" /\ proc.skipWizard /\ proc.moduleName # "") =>
        /\ cfg.Module = proc.moduleName
        /\ Succeeded => FileAt(<<"go.mod">>).args = <<proc.moduleName>>


\* The config the flags of the run stand for: the file of --config if given,
\* else the preset of a --type of cli, api or library, else the default
\* preset; then the positional name as Name.
ConfigByPrecedence ==
    LET base == IF proc.configFile # <<>>
                THEN LoadConfigFromFile(fsFiles, proc.configFile).cfg[1]
                ELSE IF proc.appType \in {TypeCLI, TypeAPI, TypeLibrary}
                THEN GetProjectConfigForType(proc.appType)
                ELSE NewDefaultProjectConfig
    IN  IF Len(proc.args) > 0 THEN [base EXCEPT !.Name = proc.args[1]] ELSE base

C23_NoGenerationAfterFailure ==
    proc.err.from \in {"load", "wizard"} =>
        /\ genState = "idle"
        /\ pending = <<>>
        /\ log = <<>>
        /\ fsFiles \in NewFiles
        /\ fsDirs = IF fsFiles = EmptyFS THEN {} ELSE Prefixes(Parent(ConfigPath))

\* A run has ended after the user said no at the confirmation, and nothing
\* was generated.
C23_Witness ==
    /\ Exited
    /\ proc.err = [from |-> "wizard", msg |-> ErrNotConfirmed]
    /\ genState = "idle"


\* C25: `new` run without a project name fails with cobra's argument error
\* ("requires at least 1 arg") and generates nothing.
C25_NameRequired ==
    (proc.args = <<>> /\ proc.pc # "main") =>
        /\ proc.execErr = "requires at least 1 arg(s), only received 0"
        /\ genState = "idle"

\* C26: in every run of `new` that reaches GenerateProject, cfg.Name is not
\* empty, so that every path made lies under <outputDir>/<Name> and none
\* directly in the output directory.
C26_NameNotEmpty ==
    genState # "idle" =>
        /\ cfg.Name # ""
        /\ \A i \in 1..Len(log) :
              Len(log[i].path) >= 1 /\ log[i].path[1] = cfg.Name

\* The directories an os.MkdirAll leaves: the path and those above it (the
\* output directory itself when the path is empty).
DirsMadeBy(op) == Prefixes(op.path) \cup {op.path}

\* C29: every file GenerateProject writes goes into a directory that
\* GenerateProject has made earlier in the same call (the project root, a
\* structural directory, cmd/<Name>, cmd/<Name>/cmd, internal/config,
\* internal/api, pkg/<Name>, .github/workflows), for every Type and every
\* combination of flags: in the program order of the os calls each write
\* comes after a MkdirAll that makes its directory, and on an output
\* directory that was empty no write is refused while no os call has failed.
C29_WritesIntoOwnDirs ==
    genState = "running" =>
        /\ (log = <<>> /\ failed = <<>>) =>
              \A i \in 1..Len(pending) :
                 pending[i].kind = "write" =>
                    \E j \in 1..(i - 1) :
                       /\ pending[j].kind = "mkdir"
                       /\ Parent(pending[i].path) \in DirsMadeBy(pending[j])
        /\ (failed = <<>> /\ pending # <<>>) => CanDo(Head(pending))

\* A library without the pkg structure flag has been generated: its source
\* file is in pkg/<Name>, which only generateLibraryCode made.
C29_Witness ==
    /\ Succeeded
    /\ cfg.Type = TypeLibrary
    /\ ~cfg.UsePkg
    /\ cfg.Name # ""
    /\ Exists(<<"pkg", cfg.Name, LibFileName(cfg.Name)>>)
    /\ \E i \in 1..Len(log) :
          log[i].kind = "mkdir" /\ log[i].by = "generateLibraryCode"

\* C30: after a successful GenerateProject, every third-party package the
\* generated source files import (Cobra, Viper, Gin) is declared in the
\* generated go.mod, for every combination of Type, UseCobra, UseViper and
\* UseGin.
C30_ImportsDeclared ==
    Succeeded => ImportedModules \subseteq DeclaredModules

----------------------------------------------------------------------------
(***************************************************************************)
(* The claim about successive calls of GenerateProject, under SpecSeq.     *)
(***************************************************************************)
\* C28: GenerateProject deletes and renames nothing: across successive calls
\* on the same output directory, with the same config or another, succeeding
\* or failing, every step leaves every file and directory that exists in
\* place, so the set of paths only grows and the files of an earlier config
\* that the later one does not write stay on disk.
C28_PathsOnlyGrow ==
    [][/\ fsDirs \subseteq fsDirs'
       /\ DOMAIN fsFiles \subseteq DOMAIN fsFiles']_vars

\* A second call with another config has returned nil, and a file of the
\* first call that the second does not write is still there.
C28_Witness ==
    /\ firstRun.done
    /\ Succeeded
    /\ \E p \in DOMAIN firstRun.files :
          p \notin WrittenPaths(cfg, now) /\ p \in DOMAIN fsFiles

----------------------------------------------------------------------------
(***************************************************************************)
(* The claims about RunWizard, under SpecWizard.                           *)
(***************************************************************************)
WizardReturned == proc.pc = "wizard returned"

\* C24: an interrupt at any prompt of the wizard (name, module, description,
\* author, license, type, structure, files, tools, dependencies, CI/CD, the
\* confirmation) makes RunWizard return the "wizard cancelled" outcome,
\* never the error of the prompt as it came.
C24_InterruptIsCancelled ==
    (WizardReturned /\ proc.answers.stopAt # 0 /\ proc.answers.interrupt) =>
        proc.err = ErrWizardCancelled


\* The type selected at the type prompt of the recorded call: the option
\* taken, or on Enter the config's Type, the first option (default) when the
\* Type is none of the options.
SelectedType ==
    IF proc.answers.type # "" THEN proc.answers.type
    ELSE IF proc.before.Type \in {TypeDefault, TypeCLI, TypeAPI, TypeLibrary}
    THEN proc.before.Type
    ELSE TypeDefault

\* The flags the type step sets for a newly selected type, and to what.
TypeDeltas(t) ==
    CASE t = TypeCLI -> {<<"UseCobra", TRUE>>, <<"UseViper", TRUE>>}
      [] t = TypeAPI -> {<<"UseGin", TRUE>>}
      [] t = TypeLibrary -> {<<"UseCmd", FALSE>>}
      [] OTHER -> {}

\* C27: the type step of the wizard: when the selected type differs from the
\* config's Type, exactly the deltas of the selected type are applied (cli:
\* UseCobra and UseViper true; api: UseGin true; library: UseCmd false;
\* default: nothing) and no other flag changes, so that the flags a former
\* type set are not undone; when the selected type is the config's Type, no
\* flag changes, even if the flags are not those of the type's preset.
C27_TypeStepDeltas ==
    (WizardReturned /\ proc.answers.toggled = {}
       /\ (proc.answers.stopAt = 0 \/ proc.answers.stopAt > 6)) =>
        /\ cfg.Type = SelectedType
        /\ \A f \in Range(BoolFields) :
              cfg[f] = IF SelectedType # proc.before.Type
                          /\ \E d \in TypeDeltas(SelectedType) : d[1] = f
                       THEN (CHOOSE d \in TypeDeltas(SelectedType) : d[1] = f)[2]
                       ELSE proc.before[f]

\* The wizard has returned from a config of type cli with the flags of the
\* cli preset where api was selected (UseCobra and UseViper stay, UseGin is
\* set), and from the default preset's flags under Type cli where Enter kept
\* cli (UseCobra stays false).
C27_Witness ==
    /\ WizardReturned
    /\ proc.answers.toggled = {}
    /\ proc.answers.stopAt = 0
    /\ proc.before = NewCLIProjectConfig
    /\ proc.answers.type = TypeAPI
    /\ cfg.UseCobra /\ cfg.UseViper /\ cfg.UseGin /\ cfg.Type = TypeAPI

====
